---- MODULE Spec2Model ----
(***************************************************************************)
(* Model of ReplayBufferXtender.py: an OBS script that, on the "replay     *)
(* buffer saved" event, moves the clip into a folder named after the       *)
(* focused application and optionally renames it.                          *)
(*                                                                         *)
(* Strings are sequences of one-character strings, so that str.replace,    *)
(* str.strip, os.path.split and os.path.join are computed, not assumed.    *)
(***************************************************************************)
EXTENDS Integers, Sequences, FiniteSets, TLC

VARIABLES
    base_dir,             \* inst.base_dir (<<>> models both None and "")
    use_windowsapps,      \* inst.use_windowsapps
    prepend_window_name,  \* inst.prepend_window_name
    files,                \* filesystem: normalised paths of the files
    dirs,                 \* filesystem: normalised paths of the directories
    lastReplay,           \* host: path answered by "get_last_replay"
    pending,              \* host: a clip was saved, its event is not yet delivered
    events,               \* number of events delivered to on_event so far
    call,                 \* observation of the last event_handler invocation
    sIn, sOut1, sOut2, sCalls  \* sanitizer harness: input, 1st and 2nd output

vars == <<base_dir, use_windowsapps, prepend_window_name, files, dirs,
          lastReplay, pending, events, call, sIn, sOut1, sOut2, sCalls>>

----------------------------------------------------------------------------
(* Bounds *)

\* longest string handed to the sanitizer harness
MaxLen == 5

\* number of events the host delivers in one behaviour
MaxEvents == 2

----------------------------------------------------------------------------
(* Python str operations *)

\* s[i:] starts with old (1-based i)
StartsAt(s, old, i) ==
    /\ i + Len(old) - 1 <= Len(s)
    /\ SubSeq(s, i, i + Len(old) - 1) = old

\* old in s
Contains(s, old) == \E i \in 1..Len(s) : StartsAt(s, old, i)

RECURSIVE ReplaceFrom(_, _, _, _)
ReplaceFrom(s, old, new, i) ==
    IF i > Len(s) THEN <<>>
    ELSE IF StartsAt(s, old, i)
         THEN new \o ReplaceFrom(s, old, new, i + Len(old))
         ELSE <<s[i]>> \o ReplaceFrom(s, old, new, i + 1)

RECURSIVE ReplaceOnceFrom(_, _, _, _)
ReplaceOnceFrom(s, old, new, i) ==
    IF i > Len(s) THEN <<>>
    ELSE IF StartsAt(s, old, i)
         THEN new \o SubSeq(s, i + Len(old), Len(s))
         ELSE <<s[i]>> \o ReplaceOnceFrom(s, old, new, i + 1)

\* faulty variant of replace: str.replace(old, new, 1), only the first occurrence
replaceFirst(s, old, new) == ReplaceOnceFrom(s, old, new, 1)

\* str.replace(old, new) for a non-empty old: every non-overlapping
\* occurrence, scanning from the left
replace(s, old, new) == ReplaceFrom(s, old, new, 1)

\* the whitespace str.strip() removes, as far as the model's alphabet goes
Whitespace == {" ", "\t"}

RECURSIVE lstrip(_)
lstrip(s) ==
    IF s # <<>> /\ s[1] \in Whitespace THEN lstrip(Tail(s)) ELSE s

RECURSIVE rstrip(_)
rstrip(s) ==
    IF s # <<>> /\ s[Len(s)] \in Whitespace
    THEN rstrip(SubSeq(s, 1, Len(s) - 1)) ELSE s

\* str.strip()
strip(s) == rstrip(lstrip(s))

----------------------------------------------------------------------------
(* sanitize_string *)

\* ReplayBufferXtender.disallowed_chars, in list order
disallowed_chars ==
    << <<"\\">>, <<"/">>, <<":">>, <<"*">>, <<"?">>, <<"\"">>, <<"<">>,
       <<">">>, <<"|">>, <<".", "e", "x", "e">>, <<"$">> >>

\* the for loop of sanitize_string, from list index k on
RECURSIVE RemoveDisallowed(_, _)
RemoveDisallowed(txt, k) ==
    IF k > Len(disallowed_chars) THEN txt
    ELSE RemoveDisallowed(
             IF Contains(txt, disallowed_chars[k])
             THEN replace(txt, disallowed_chars[k], <<>>)
             ELSE txt,
             k + 1)

sanitize_string(txt) == strip(RemoveDisallowed(txt, 1))

----------------------------------------------------------------------------
(* os.path on Windows (ntpath), for paths with an optional "X:" drive.     *)
(* UNC paths and case folding of drive letters are outside the inputs.     *)

seps == {"\\", "/"}

\* ntpath.splitdrive
splitdrive(p) ==
    IF Len(p) >= 2 /\ p[2] = ":"
    THEN <<SubSeq(p, 1, 2), SubSeq(p, 3, Len(p))>>
    ELSE <<<<>>, p>>

\* "while i and p[i-1] not in seps: i -= 1" of ntpath.split
RECURSIVE ScanBack(_, _)
ScanBack(p, i) ==
    IF i > 0 /\ p[i] \notin seps THEN ScanBack(p, i - 1) ELSE i

\* str.rstrip(seps)
RECURSIVE rstripSeps(_)
rstripSeps(s) ==
    IF s # <<>> /\ s[Len(s)] \in seps
    THEN rstripSeps(SubSeq(s, 1, Len(s) - 1)) ELSE s

\* os.path.split: <<head, tail>>
split(p) ==
    LET d    == splitdrive(p)[1]
        r    == splitdrive(p)[2]
        i    == ScanBack(r, Len(r))
        head == SubSeq(r, 1, i)
        tail == SubSeq(r, i + 1, Len(r))
        h    == IF rstripSeps(head) # <<>> THEN rstripSeps(head) ELSE head
    IN  <<d \o h, tail>>

\* os.path.join(path, p)
join(path, p) ==
    LET rd == splitdrive(path)[1]
        rp == splitdrive(path)[2]
        pd == splitdrive(p)[1]
        pp == splitdrive(p)[2]
    IN  IF pp # <<>> /\ pp[1] \in seps
        THEN (IF pd # <<>> \/ rd = <<>> THEN pd ELSE rd) \o pp
        ELSE IF pd # <<>> /\ pd # rd
        THEN pd \o pp
        ELSE rd \o (IF rp # <<>> /\ rp[Len(rp)] \notin seps
                    THEN rp \o <<"\\">> ELSE rp) \o pp

----------------------------------------------------------------------------
(* The filesystem: os.path.exists, os.mkdir and os.rename on Windows.      *)

\* The name Windows resolves a path string to: "/" and "\" are the same
\* separator and a trailing separator after a directory name is ignored.
Norm(p) ==
    LET b == [i \in 1..Len(p) |-> IF p[i] = "/" THEN "\\" ELSE p[i]]
        d == splitdrive(b)[1]
        r == splitdrive(b)[2]
    IN  d \o (IF rstripSeps(r) # <<>> THEN rstripSeps(r) ELSE r)

\* the directory a path lies in
Parent(p) == Norm(split(Norm(p))[1])

\* os.path.exists(p) in the filesystem <<fs_files, fs_dirs>>
exists(fs_files, fs_dirs, p) == Norm(p) \in fs_files \cup fs_dirs

\* os.mkdir(p); fail = "mkdir" is a refusal by the OS (access denied)
os_mkdir(fs_files, fs_dirs, p, fail) ==
    IF fail = "mkdir"
    THEN [dirs |-> fs_dirs, raised |-> "PermissionError"]
    ELSE IF exists(fs_files, fs_dirs, p)
    THEN [dirs |-> fs_dirs, raised |-> "FileExistsError"]
    ELSE IF Parent(p) \notin fs_dirs
    THEN [dirs |-> fs_dirs, raised |-> "FileNotFoundError"]
    ELSE [dirs |-> fs_dirs \cup {Norm(p)}, raised |-> "none"]

\* os.rename(src, dst); fail = "rename" is a refusal by the OS (file in
\* use, access denied, destination on another volume)
os_rename(fs_files, fs_dirs, src, dst, fail) ==
    IF fail = "rename"
    THEN [files |-> fs_files, raised |-> "PermissionError"]
    ELSE IF Norm(src) \notin fs_files
    THEN [files |-> fs_files, raised |-> "FileNotFoundError"]
    ELSE IF Norm(dst) = Norm(src)
    THEN [files |-> fs_files, raised |-> "none"]
    ELSE IF Norm(dst) \in fs_files \cup fs_dirs
    THEN [files |-> fs_files, raised |-> "FileExistsError"]
    ELSE IF Parent(dst) \notin fs_dirs
    THEN [files |-> fs_files, raised |-> "FileNotFoundError"]
    ELSE [files |-> (fs_files \ {Norm(src)}) \cup {Norm(dst)},
          raised |-> "none"]

----------------------------------------------------------------------------
(* Sanitizer harness: the pure function applied once and twice to every    *)
(* string over SanAlphabet of length at most MaxLen.                       *)

SanAlphabet == {"\\", ":", "$", ".", "e", "x", " ", "a"}

SanInputs == UNION {[1..n -> SanAlphabet] : n \in 0..MaxLen}

\* everything the relocation part of the model starts from
InitConfig ==
    /\ base_dir = <<>>
    /\ use_windowsapps = TRUE
    /\ prepend_window_name = TRUE

InitSan ==
    /\ InitConfig
    /\ files = {}
    /\ dirs = {}
    /\ lastReplay = <<>>
    /\ pending = FALSE
    /\ events = 0
    /\ call = <<>>
    /\ sIn \in SanInputs
    /\ sOut1 = <<>>
    /\ sOut2 = <<>>
    /\ sCalls = 0

\* sOut1 = sanitize_string(sIn)
SanitizeOnce ==
    /\ sCalls = 0
    /\ sOut1' = sanitize_string(sIn)
    /\ sCalls' = 1
    /\ UNCHANGED <<base_dir, use_windowsapps, prepend_window_name, files,
                   dirs, lastReplay, pending, events, call, sIn, sOut2>>

\* sOut2 = sanitize_string(sanitize_string(sIn))
SanitizeAgain ==
    /\ sCalls = 1
    /\ sOut2' = sanitize_string(sOut1)
    /\ sCalls' = 2
    /\ UNCHANGED <<base_dir, use_windowsapps, prepend_window_name, files,
                   dirs, lastReplay, pending, events, call, sIn, sOut1>>

NextSan == SanitizeOnce \/ SanitizeAgain

SpecSan == InitSan /\ [][NextSan]_vars

----------------------------------------------------------------------------
\* C2: sanitize_string is idempotent: sanitizing the output of
\* sanitize_string gives that output back.
C2_Idempotent == sCalls = 2 => sOut2 = sOut1

\* C3: the output of sanitize_string contains no element of the disallowed
\* list (none of the ten characters, no ".exe") and neither starts nor ends
\* with whitespace.
C3_NoDisallowedAndTrimmed ==
    sCalls >= 1 =>
        /\ \A k \in 1..Len(disallowed_chars) :
               ~Contains(sOut1, disallowed_chars[k])
        /\ sOut1 # <<>> =>
               sOut1[1] \notin Whitespace /\ sOut1[Len(sOut1)] \notin Whitespace

----------------------------------------------------------------------------
(* Inputs: what the host and the OS can answer *)

Replay == <<"R","e","p","l","a","y">>

\* the placeholder of line 129
Windowsapps == <<"W","i","n","d","o","w","s","a","p","p","s">>

\* C:\Vids\Replay 2024-01-01.mp4
Clip1 == <<"C",":","\\","V","i","d","s","\\","R","e","p","l","a","y"," ",
           "2","0","2","4","-","0","1","-","0","1",".","m","p","4">>

\* C:/Clips/Game One/ReplayReplay.mp4 (OBS reports forward slashes)
Clip2 == <<"C",":","/","C","l","i","p","s","/","G","a","m","e"," ","O","n",
           "e","/","R","e","p","l","a","y","R","e","p","l","a","y",".","m",
           "p","4">>

\* paths the replay buffer writes its clips to
ReplayPaths == {Clip1, Clip2}

\* C:\Clips
ClipsDir == <<"C",":","\\","C","l","i","p","s">>

\* values of the "baseSavePath" setting; <<>> is "not set"
BaseDirs == {<<>>, ClipsDir}

\* directories present before the script runs
InitDirs ==
    { <<"C",":","\\">>,
      <<"C",":","\\","V","i","d","s">>,
      ClipsDir,
      ClipsDir \o <<"\\","G","a","m","e"," ","O","n","e">> }

GameOne == <<"G","a","m","e"," ","O","n","e">>

\* The foreground window at the time of the event:
\*   proc  - outcome of psutil.Process(pid).exe()
\*   info  - whether the executable has a version-info resource
\*   desc  - its FileDescription
\*   title - GetWindowText of the window
Windows ==
    { [proc |-> "ok", info |-> "ok", desc |-> GameOne,
       title |-> <<" ","T","i",":","t"," ">>],
      [proc |-> "ok", info |-> "missing", desc |-> <<>>,
       title |-> <<" ","T","i",":","t"," ">>],
      [proc |-> "ok", info |-> "ok", desc |-> <<"$">>, title |-> <<" ">>],
      [proc |-> "AccessDenied", info |-> "ok", desc |-> GameOne,
       title |-> <<" ","T","i",":","t"," ">>] }

NoWindow == [proc |-> "ok", info |-> "missing", desc |-> <<>>, title |-> <<>>]

\* which host or OS call fails for reasons outside the model's filesystem
Failures == {"none", "fetch", "mkdir", "rename"}

SAVED == "OBS_FRONTEND_EVENT_REPLAY_BUFFER_SAVED"
STARTED == "OBS_FRONTEND_EVENT_RECORDING_STARTED"

\* one entry of the trace of host, OS and filesystem calls
Op(name, a, b) == <<name, a, b>>

----------------------------------------------------------------------------
(* Window identity *)

\* get_focused_window_name
get_focused_window_name(win) == sanitize_string(win.title)

\* get_focused_window_executable_path: raises what psutil raises
get_focused_window_executable_path(win) ==
    [raised |-> IF win.proc = "ok" THEN "none" ELSE win.proc]

\* get_focused_application_name: the call of line 86 is outside the try,
\* the two GetFileVersionInfo calls are inside it
get_focused_application_name(win) ==
    LET exe == get_focused_window_executable_path(win)
    IN  IF exe.raised # "none"
        THEN [raised |-> exe.raised, value |-> <<>>,
              ops |-> <<Op("Process.exe", <<>>, <<>>)>>]
        ELSE [raised |-> "none",
              value  |-> sanitize_string(IF win.info = "ok"
                                         THEN win.desc ELSE <<>>),
              ops    |-> <<Op("Process.exe", <<>>, <<>>),
                           Op("GetFileVersionInfo", <<>>, <<>>)>>]

\* faulty variant of SubDir: the window title is preferred to the description
SubDirTitleFirst(app, win) ==
    IF get_focused_window_name(win) # <<>>
    THEN [value |-> get_focused_window_name(win),
          ops |-> <<Op("GetWindowText", <<>>, <<>>)>>]
    ELSE [value |-> app, ops |-> <<Op("GetWindowText", <<>>, <<>>)>>]

\* line 123, given the application name of line 122
SubDir(app, win) ==
    IF app # <<>>
    THEN [value |-> app, ops |-> <<>>]
    ELSE [value |-> get_focused_window_name(win),
          ops |-> <<Op("GetWindowText", <<>>, <<>>)>>]

----------------------------------------------------------------------------
(* move_video *)

\* faulty variant of PlaceholderOrSubDir: the placeholder is never substituted
NoPlaceholder(sub_dir) == sub_dir

\* lines 126-129: sub_dir after the placeholder substitution
PlaceholderOrSubDir(sub_dir) ==
    IF sub_dir = <<>> /\ use_windowsapps THEN Windowsapps ELSE sub_dir

\* faulty variant of BailOut: the early return is missing
BailOutNever(sub_dir) == FALSE

\* lines 126, 128, 131: the branch that moves into base_dir and returns
BailOut(sub_dir) ==
    sub_dir = <<>> /\ ~use_windowsapps /\ base_dir # <<>>

\* lines 137-138
NewFileName(lr_fname, sub_dir) ==
    IF prepend_window_name THEN replace(lr_fname, Replay, sub_dir)
    ELSE lr_fname

\* faulty variant of BaseDirFor: base_dir is ignored
BaseDirAlwaysOrig(lr_orig_dir) == lr_orig_dir

\* lines 141-144
BaseDirFor(lr_orig_dir) ==
    IF base_dir # <<>> THEN base_dir ELSE lr_orig_dir

\* what move_video leaves behind
Outcome(fs_files, fs_dirs, ops, raised, resolved, sub_dir) ==
    [files |-> fs_files, dirs |-> fs_dirs, ops |-> ops, raised |-> raised,
     resolved |-> resolved, sub_dir |-> sub_dir]

\* lines 140-152, with sub_dir and lr_fname as they are at line 140
MoveIntoSubDir(ops, label, lr_orig_dir, sub_dir, lr_fname, fail) ==
    LET lr_dir == join(BaseDirFor(lr_orig_dir), sub_dir)
        there  == exists(files, dirs, lr_dir)
        mk     == IF there THEN [dirs |-> dirs, raised |-> "none"]
                  ELSE os_mkdir(files, dirs, lr_dir, fail)
        ops1   == ops \o <<Op("exists", lr_dir, <<>>)>>
                      \o (IF there THEN <<>>
                          ELSE <<Op("mkdir", lr_dir, <<>>)>>)
        dst    == join(lr_dir, lr_fname)
        rn     == os_rename(files, mk.dirs, lastReplay, dst, fail)
    IN  IF mk.raised # "none"
        THEN Outcome(files, dirs, ops1, mk.raised, TRUE, label)
        ELSE Outcome(rn.files, mk.dirs,
                     ops1 \o <<Op("rename", lastReplay, dst)>>,
                     rn.raised, TRUE, label)

\* move_video, lines 116-152
move_video(win, fail) ==
    LET fetch       == <<Op("get_last_replay", <<>>, <<>>)>>
        lr_orig_dir == split(lastReplay)[1]
        lr_fname    == split(lastReplay)[2]
        app         == get_focused_application_name(win)
        sd          == SubDir(app.value, win)
        ops         == fetch \o app.ops \o sd.ops
        dst0        == join(base_dir, lr_fname)
        rn0         == os_rename(files, dirs, lastReplay, dst0, fail)
        sub_dir     == PlaceholderOrSubDir(sd.value)
    IN  IF fail = "fetch"
        THEN Outcome(files, dirs, fetch, "RuntimeError", FALSE, <<>>)
        ELSE IF app.raised # "none"
        THEN Outcome(files, dirs, fetch \o app.ops, app.raised, FALSE, <<>>)
        ELSE IF BailOut(sd.value)
        THEN Outcome(rn0.files, dirs,
                     ops \o <<Op("rename", lastReplay, dst0)>>,
                     rn0.raised, TRUE, sd.value)
        ELSE MoveIntoSubDir(ops, sd.value, lr_orig_dir, sub_dir,
                            NewFileName(lr_fname, sub_dir), fail)

----------------------------------------------------------------------------
(* event_handler and the host callbacks *)

\* the exception classes the model raises
OSErrors == {"FileNotFoundError", "FileExistsError", "PermissionError"}
Raisable == OSErrors \cup {"RuntimeError", "AccessDenied"}

\* faulty variant of Catches: "except OSError"
CatchesOSError(exc) == exc \in OSErrors

\* line 31: "except BaseException" catches every exception class
Catches(exc) == exc \in Raisable

NoCall ==
    [event |-> STARTED, win |-> NoWindow, fail |-> "none", path |-> <<>>,
     resolved |-> FALSE, sub_dir |-> <<>>, ops |-> <<>>, raised |-> "none",
     escaped |-> FALSE, printed |-> "none"]

Init ==
    /\ InitConfig
    /\ files = {}
    /\ dirs = InitDirs
    /\ lastReplay = <<>>
    /\ pending = FALSE
    /\ events = 0
    /\ call = NoCall
    /\ sIn = <<>>
    /\ sOut1 = <<>>
    /\ sOut2 = <<>>
    /\ sCalls = 0

\* script_update: the host hands over the user's settings
script_update(b, u, p) ==
    /\ events < MaxEvents
    /\ ~pending
    /\ base_dir' = b
    /\ use_windowsapps' = u
    /\ prepend_window_name' = p
    /\ <<b, u, p>> # <<base_dir, use_windowsapps, prepend_window_name>>
    /\ UNCHANGED <<files, dirs, lastReplay, pending, events, call,
                   sIn, sOut1, sOut2, sCalls>>

\* the replay buffer writes a clip; get_last_replay answers its path and
\* the host delivers the buffer-saved event next
HostSaveReplay(p) ==
    /\ events < MaxEvents
    /\ ~pending
    /\ Norm(p) \notin files
    /\ files' = files \cup {Norm(p)}
    /\ lastReplay' = p
    /\ pending' = TRUE
    /\ UNCHANGED <<base_dir, use_windowsapps, prepend_window_name, dirs,
                   events, call, sIn, sOut1, sOut2, sCalls>>

\* on_event -> event_handler, for the buffer-saved event
OnReplaySaved(win, fail) ==
    /\ events < MaxEvents
    /\ pending
    /\ pending' = FALSE
    /\ \E mv \in {move_video(win, fail)} :
       LET caught == mv.raised # "none" /\ Catches(mv.raised)
       IN  /\ files' = mv.files
           /\ dirs' = mv.dirs
           /\ call' = [event |-> SAVED, win |-> win, fail |-> fail,
                       path |-> lastReplay, resolved |-> mv.resolved,
                       sub_dir |-> mv.sub_dir, ops |-> mv.ops,
                       raised |-> mv.raised,
                       escaped |-> mv.raised # "none" /\ ~caught,
                       printed |-> IF caught THEN mv.raised ELSE "none"]
    /\ events' = events + 1
    /\ UNCHANGED <<base_dir, use_windowsapps, prepend_window_name,
                   lastReplay, sIn, sOut1, sOut2, sCalls>>

\* on_event -> event_handler, for any other event: line 28 is false
OnOtherEvent ==
    /\ events < MaxEvents
    /\ ~pending
    /\ call' = [NoCall EXCEPT !.path = lastReplay]
    /\ events' = events + 1
    /\ UNCHANGED <<base_dir, use_windowsapps, prepend_window_name, files,
                   dirs, lastReplay, pending, sIn, sOut1, sOut2, sCalls>>

Next ==
    \/ \E b \in BaseDirs, u \in BOOLEAN, p \in BOOLEAN : script_update(b, u, p)
    \/ \E p \in ReplayPaths : HostSaveReplay(p)
    \/ \E win \in Windows, fail \in Failures : OnReplaySaved(win, fail)
    \/ OnOtherEvent

Spec == Init /\ [][Next]_vars

----------------------------------------------------------------------------
(* Vocabulary of the properties *)

\* the step is one delivery of an event to on_event
Handled == events' = events + 1

\* the longest suffix of p without a separator: the file name of p
BaseName(p) ==
    CHOOSE t \in {SubSeq(p, i, Len(p)) : i \in 1..(Len(p) + 1)} :
        /\ \A j \in 1..Len(t) : t[j] \notin seps
        /\ Len(t) = Len(p) \/ p[Len(p) - Len(t)] \in seps

\* p without its last separator and file name: the directory of p
DirName(p) == SubSeq(p, 1, Len(p) - Len(BaseName(p)) - 1)

\* the mkdir and rename calls of an invocation, in order
FsOps(c) == SelectSeq(c.ops, LAMBDA o : o[1] \in {"mkdir", "rename"})
RenameOps(c) == SelectSeq(c.ops, LAMBDA o : o[1] = "rename")
MkdirOps(c) == SelectSeq(c.ops, LAMBDA o : o[1] = "mkdir")

\* s with every occurrence of "Replay" replaced by label, found from the
\* right end ("Replay" cannot overlap itself, so the occurrences are the
\* same from either end)
RECURSIVE EveryReplayReplaced(_, _, _)
EveryReplayReplaced(s, n, label) ==
    IF n = 0 THEN <<>>
    ELSE IF n >= Len(Replay) /\ SubSeq(s, n - Len(Replay) + 1, n) = Replay
         THEN EveryReplayReplaced(s, n - Len(Replay), label) \o label
         ELSE EveryReplayReplaced(s, n - 1, label) \o <<s[n]>>

\* the label a resolved invocation relocates with, if any
LabelOf(c, placeholder) ==
    IF c.sub_dir # <<>> THEN c.sub_dir
    ELSE IF placeholder THEN Windowsapps ELSE <<>>

\* the file name the clip is expected to get under label
ExpectedName(path, label, prepend) ==
    IF prepend
    THEN EveryReplayReplaced(BaseName(path), Len(BaseName(path)), label)
    ELSE BaseName(path)

\* the destination root
RootOf(path, base) == IF base # <<>> THEN base ELSE DirName(path)

----------------------------------------------------------------------------
\* C1: with an empty resolved label, placeholder-fallback disabled and no
\* base directory, handling the buffer-saved event leaves the clip at its
\* original path (the filesystem is as before), whatever prepend-name and
\* the file name are.
C1_NoOpLeavesFile ==
    [][ ( /\ Handled
          /\ call'.event = SAVED
          /\ call'.resolved
          /\ call'.sub_dir = <<>>
          /\ ~use_windowsapps
          /\ base_dir = <<>> )
        => ( /\ Norm(lastReplay) \in files'
             /\ files' = files
             /\ dirs' = dirs ) ]_vars

\* C4: event_handler never lets an exception escape: whatever is raised
\* while handling the buffer-saved event is caught and printed, and for any
\* other event nothing is queried, printed or touched.
C4_NothingEscapes ==
    [][ Handled =>
          /\ ~call'.escaped
          /\ call'.raised # "none" => call'.printed = call'.raised
          /\ call'.event # SAVED =>
                /\ call'.ops = <<>>
                /\ call'.printed = "none"
                /\ files' = files
                /\ dirs' = dirs ]_vars

\* C4 witness: a buffer-saved event during which psutil raised
C4_Witness ==
    /\ call.event = SAVED
    /\ call.raised = "AccessDenied"
    /\ call.printed = "AccessDenied"

\* C5: a failure of any step of the process-metadata lookup, the
\* executable-path lookup included, is tolerated: the application name is
\* empty and the relocation goes on with the window title.
C5_LookupFailureTolerated ==
    ( /\ call.event = SAVED
      /\ call.fail = "none"
      /\ call.win.proc # "ok" \/ call.win.info # "ok" )
    => ( /\ call.raised = "none"
         /\ call.resolved
         /\ call.sub_dir = sanitize_string(call.win.title) )

\* C6: with an empty resolved label, placeholder-fallback disabled and a
\* base directory configured, the only filesystem call is one rename of the
\* clip to <base_dir>\<original file name>; no directory is created and,
\* when the rename succeeds, the clip is there and nowhere else.
C6_MovedIntoBaseDir ==
    [][ ( /\ Handled
          /\ call'.event = SAVED
          /\ call'.resolved
          /\ call'.sub_dir = <<>>
          /\ ~use_windowsapps
          /\ base_dir # <<>> )
        => \E dst \in {base_dir \o <<"\\">> \o BaseName(lastReplay)} :
             /\ FsOps(call') = << <<"rename", lastReplay, dst>> >>
             /\ dirs' = dirs
             /\ call'.raised = "none" =>
                    files' = (files \ {Norm(lastReplay)}) \cup {Norm(dst)} ]_vars

\* C6 witness: prepend-name is on, the clip is called Replay..., and it
\* now lies in the base directory under that name
C6_Witness ==
    /\ call.event = SAVED /\ call.resolved /\ call.raised = "none"
    /\ call.sub_dir = <<>>
    /\ ~use_windowsapps /\ prepend_window_name /\ base_dir = ClipsDir
    /\ Contains(BaseName(call.path), Replay)
    /\ Norm(ClipsDir \o <<"\\">> \o BaseName(call.path)) \in files

\* C7: with an empty resolved label and placeholder-fallback enabled, the
\* destination folder is <root>\Windowsapps, root being the base directory
\* if set and the clip's directory otherwise, whatever prepend-name is.
C7_PlaceholderFolder ==
    [][ ( /\ Handled
          /\ call'.event = SAVED
          /\ call'.resolved
          /\ call'.sub_dir = <<>>
          /\ use_windowsapps )
        => \E d \in {RootOf(lastReplay, base_dir) \o <<"\\">> \o Windowsapps} :
             /\ \A i \in 1..Len(RenameOps(call')) :
                    DirName(RenameOps(call')[i][3]) = d
             /\ \A i \in 1..Len(MkdirOps(call')) : MkdirOps(call')[i][2] = d
             /\ call'.raised = "none" =>
                    /\ Len(RenameOps(call')) = 1
                    /\ Norm(d) \in dirs'
                    /\ Norm(RenameOps(call')[1][3]) \in files' ]_vars

\* C7 witness: a clip was moved under the placeholder folder
C7_Witness ==
    /\ call.event = SAVED /\ call.resolved /\ call.raised = "none"
    /\ call.sub_dir = <<>>
    /\ use_windowsapps
    /\ Len(RenameOps(call)) = 1
    /\ BaseName(DirName(RenameOps(call)[1][3])) = Windowsapps
    /\ Norm(RenameOps(call)[1][3]) \in files

\* C8: when a label is available, the destination file name is the
\* original one with every "Replay" replaced by the label if prepend-name
\* is enabled, and the original one if it is disabled.
C8_FileName ==
    [][ ( /\ Handled
          /\ call'.event = SAVED
          /\ call'.resolved
          /\ LabelOf(call', use_windowsapps) # <<>> )
        => /\ \A i \in 1..Len(RenameOps(call')) :
                  BaseName(RenameOps(call')[i][3]) =
                      ExpectedName(lastReplay,
                                   LabelOf(call', use_windowsapps),
                                   prepend_window_name)
           /\ call'.raised = "none" => Len(RenameOps(call')) = 1 ]_vars

\* C8 witness: prepend-name is on and a clip whose name holds "Replay"
\* twice was moved under a resolved label
C8_Witness ==
    /\ call.event = SAVED /\ call.resolved /\ call.raised = "none"
    /\ call.sub_dir # <<>>
    /\ prepend_window_name
    /\ call.path = Clip2
    /\ Len(RenameOps(call)) = 1

\* C9: the label is the sanitized file description when that is not empty,
\* the sanitized window title otherwise (the title is asked for only then),
\* and it is empty only when both are.
C9_OrderedFallback ==
    ( call.event = SAVED /\ call.resolved ) =>
        \E d \in {sanitize_string(IF call.win.info = "ok"
                                  THEN call.win.desc ELSE <<>>)} :
        \E t \in {sanitize_string(call.win.title)} :
            /\ call.sub_dir = IF d # <<>> THEN d ELSE t
            /\ (\E i \in 1..Len(call.ops) : call.ops[i][1] = "GetWindowText")
                   <=> d = <<>>
            /\ call.sub_dir = <<>> <=> (d = <<>> /\ t = <<>>)

\* C9 witness: no version info, the title " Ti:t " gave the label "Tit"
C9_Witness ==
    /\ call.event = SAVED /\ call.resolved
    /\ call.win.info = "missing"
    /\ call.sub_dir = <<"T", "i", "t">>

\* C10 as stated: when a label is available and the move succeeds, the
\* clip is at <root>\<label>\<file name>, that directory exists and was
\* created exactly if it did not exist, and the clip is no longer at its
\* original path.
C10_MovedAndGone ==
    [][ ( /\ Handled
          /\ call'.event = SAVED
          /\ call'.resolved
          /\ LabelOf(call', use_windowsapps) # <<>>
          /\ call'.raised = "none" )
        => \E d \in {RootOf(lastReplay, base_dir) \o <<"\\">>
                        \o LabelOf(call', use_windowsapps)} :
           \E dst \in {d \o <<"\\">>
                         \o ExpectedName(lastReplay,
                                         LabelOf(call', use_windowsapps),
                                         prepend_window_name)} :
             /\ RenameOps(call') = << <<"rename", lastReplay, dst>> >>
             /\ Norm(dst) \in files'
             /\ Norm(d) \in dirs'
             /\ MkdirOps(call') =
                    IF Norm(d) \in dirs THEN <<>>
                    ELSE << <<"mkdir", d, <<>> >> >>
             /\ Norm(lastReplay) \notin files' ]_vars

\* C10 amended: as above, but the clip is gone from its original path only
\* if the destination is another path; when <root>\<label>\<file name> is
\* the original path itself, the clip stays where it is.
C10_MovedAndGoneUnlessSamePath ==
    [][ ( /\ Handled
          /\ call'.event = SAVED
          /\ call'.resolved
          /\ LabelOf(call', use_windowsapps) # <<>>
          /\ call'.raised = "none" )
        => \E d \in {RootOf(lastReplay, base_dir) \o <<"\\">>
                        \o LabelOf(call', use_windowsapps)} :
           \E dst \in {d \o <<"\\">>
                         \o ExpectedName(lastReplay,
                                         LabelOf(call', use_windowsapps),
                                         prepend_window_name)} :
             /\ RenameOps(call') = << <<"rename", lastReplay, dst>> >>
             /\ Norm(dst) \in files'
             /\ Norm(d) \in dirs'
             /\ MkdirOps(call') =
                    IF Norm(d) \in dirs THEN <<>>
                    ELSE << <<"mkdir", d, <<>> >> >>
             /\ IF Norm(dst) # Norm(lastReplay)
                THEN Norm(lastReplay) \notin files'
                ELSE files' = files ]_vars

\* C:\Vids\Game One\Game One 2024-01-01.mp4
Example1Dest ==
    <<"C",":","\\","V","i","d","s","\\","G","a","m","e"," ","O","n","e",
      "\\","G","a","m","e"," ","O","n","e"," ","2","0","2","4","-","0","1",
      "-","0","1",".","m","p","4">>

\* C10 witness: the example of the claim; base directory unset, both flags
\* on, label "Game One": C:\Vids\Replay 2024-01-01.mp4 is now
\* C:\Vids\Game One\Game One 2024-01-01.mp4, in a directory just created
C10_Witness ==
    /\ call.event = SAVED /\ call.resolved /\ call.raised = "none"
    /\ call.path = Clip1
    /\ call.sub_dir = GameOne
    /\ base_dir = <<>> /\ use_windowsapps /\ prepend_window_name
    /\ Len(MkdirOps(call)) = 1
    /\ Example1Dest \in files
    /\ Clip1 \notin files

====
